---- MODULE Spec2Model ----
(***************************************************************************)
(* Model of xilinxutils.dsgen: the type descriptors (IntType, FloatType,   *)
(* EnumType), the record generator DataStructGen with its word packer,     *)
(* the emitted stream_read_W / stream_write_W routines, the width          *)
(* dispatchers and gen_include.                                            *)
(*                                                                         *)
(* Generated C++ text is modelled as a sequence of Line records, one per   *)
(* C++ statement, in the order the generator appends them.  A field is     *)
(* named by its position in the field list.  A word variable "wK" is the   *)
(* integer K; Python's None is NoWord.  A bit pattern is the set of the    *)
(* positions of its 1 bits.                                                *)
(***************************************************************************)
EXTENDS Integers, Sequences, FiniteSets, TLC

(***************************************************************************)
(* Bounds of the model.                                                    *)
(***************************************************************************)
MaxFields == 3

MaxWidths == 2

(***************************************************************************)
(* Program constants.                                                      *)
(***************************************************************************)
FloatWidth == 32

DefaultBusWidth == 32

NoWord == -1

RecordName == "Pkt"

(* Bus widths the generation calls are made with. *)
BusWidths == {16, 32, 64}

(***************************************************************************)
(* Type descriptors: BaseType.width plus the variant.                      *)
(***************************************************************************)
IntType(width, signed) ==
    [kind |-> "int", width |-> width, signed |-> signed, name |-> ""]

FloatType ==
    [kind |-> "float", width |-> FloatWidth, signed |-> FALSE, name |-> ""]

(* an EnumType called name whose width attribute is width *)
EnumTypeOfWidth(name, width) ==
    [kind |-> "enum", width |-> width, signed |-> FALSE, name |-> name]

(***************************************************************************)
(* The constructors.  A call either raises or yields a descriptor.  The    *)
(* width argument of EnumType is << >> for None and << w >> when given.    *)
(* An entry of an EnumType is a str (a bare label), a tuple                *)
(* (label, value), or something else.                                      *)
(***************************************************************************)
NoType == [kind |-> "none", width |-> 0, signed |-> FALSE, name |-> ""]

Built(t, entries, next_val) ==
    [raised |-> "none", dtype |-> t, entries |-> entries, next_val |-> next_val]

Failed(kind) ==
    [raised |-> kind, dtype |-> NoType, entries |-> << >>, next_val |-> 0]

IntType_init(width, signed) ==
    IF width <= 0
    THEN Failed("WidthMustBePositive")
    ELSE Built(IntType(width, signed), << >>, 0)

FloatType_init == Built(FloatType, << >>, 0)

StrEntry == [kind |-> "str", value |-> 0]

TupleEntry(v) == [kind |-> "tuple", value |-> v]

OtherEntry == [kind |-> "other", value |-> 0]

(* lines 253-260: one pass of the loop; entries holds the assigned values *)
AssignEntry(e, st) ==
    CASE e.kind = "str" ->
             [st EXCEPT !.entries = Append(st.entries, st.next_val),
                        !.next_val = st.next_val + 1]
      [] e.kind = "tuple" ->
             [st EXCEPT !.entries = Append(st.entries, e.value),
                        !.next_val = e.value + 1]
      [] OTHER -> [st EXCEPT !.raised = "EntryNotStrOrTuple"]

RECURSIVE AssignEntries(_, _, _)
AssignEntries(entries, i, st) ==
    IF i > Len(entries) \/ st.raised # "none"
    THEN st
    ELSE CHOOSE r \in { AssignEntries(entries, i + 1, x) :
                            x \in { AssignEntry(entries[i], st) } } : TRUE

(* math.ceil(math.log2(n)) for an integer n >= 1: the least k with         *)
(* 2^k >= n (math.log2 is exact on powers of two, and no other n of the    *)
(* model rounds to an integer)                                             *)
RECURSIVE CeilLog2(_)
CeilLog2(n) == IF n <= 1 THEN 0 ELSE 1 + CeilLog2((n + 1) \div 2)

Max(a, b) == IF a >= b THEN a ELSE b

(* line 263; math.log2 raises ValueError (math domain error) for n <= 0 *)
ComputedWidth(next_val) ==
    IF next_val <= 0
    THEN Failed("MathDomainError")
    ELSE Built(NoType, << >>, Max(1, CeilLog2(next_val)))

EnumType_init(name, entries, width) ==
    LET st == AssignEntries(entries, 1,
                  [entries |-> << >>, next_val |-> 0, raised |-> "none"])
        cw == ComputedWidth(st.next_val)
    IN  IF st.raised # "none"
        THEN Failed(st.raised)
        ELSE IF width = << >>
             THEN IF cw.raised # "none"
                  THEN Failed(cw.raised)
                  ELSE Built(EnumTypeOfWidth(name, cw.next_val),
                             st.entries, st.next_val)
             ELSE Built(EnumTypeOfWidth(name, width[1]), st.entries, st.next_val)

(* The descriptors the fields of the modelled records are built from. *)
FieldTypes ==
    { IntType(8, FALSE), IntType(16, TRUE), IntType(20, TRUE),
      FloatType, EnumTypeOfWidth("Mode", 2) }

(***************************************************************************)
(* Lines of generated text.                                                *)
(***************************************************************************)
Ln(op) ==
    [op |-> op, fld |-> 0, w |-> NoWord, src |-> "", hi |-> 0, lo |-> 0,
     flag |-> "", name |-> "", widths |-> <<>>]

LnW(op, w) == [Ln(op) EXCEPT !.w = w]

(* "<word_name>" or "<word_name>.range(high, ind0)" inside a line *)
WholeWord(ln, w) == [ln EXCEPT !.w = w, !.src = "word"]

RangeOf(ln, w, high, ind0) ==
    [ln EXCEPT !.w = w, !.src = "range", !.hi = high, !.lo = ind0]

(***************************************************************************)
(* read_expr / write_expr.  The result is [raised, segs]: segs is the      *)
(* returned string cut at its ';' separators.                              *)
(***************************************************************************)
Raise(kind) == [raised |-> kind, segs |-> <<>>]

Return(segs) == [raised |-> "none", segs |-> segs]

IntType_read_expr_impl(t, word, word_width, ind0) ==
    IF t.width = word_width /\ ind0 = 0
    THEN Return(<< WholeWord(Ln("expr"), word) >>)
    ELSE Return(<< RangeOf(Ln("expr"), word, ind0 + t.width - 1, ind0) >>)

IntType_write_expr_impl(t, var, word, word_width, ind0) ==
    IF t.width = word_width /\ ind0 = 0
    THEN Return(<< [WholeWord(Ln("store_var"), word) EXCEPT !.fld = var] >>)
    ELSE Return(<< [RangeOf(Ln("store_var"), word, ind0 + t.width - 1, ind0)
                      EXCEPT !.fld = var] >>)

FloatType_read_expr_impl(t, word, word_width, ind0) ==
    IF ind0 + t.width > word_width
    THEN Raise("FloatDoesNotFit")
    ELSE LET src_expr ==
                 IF t.width = word_width /\ ind0 = 0
                 THEN WholeWord(Ln("conv_u_assign"), word)
                 ELSE RangeOf(Ln("conv_u_assign"), word, ind0 + t.width - 1, ind0)
         IN  Return(<< Ln("union_decl"), src_expr, Ln("conv_f") >>)

(* variant: a Float that fills the word is stored without a bit range *)
FloatType_write_expr_impl_WholeWord(t, var, word, word_width, ind0) ==
    IF ind0 + t.width > word_width
    THEN Raise("FloatDoesNotFit")
    ELSE Return(<< Ln("union_decl"),
                   [Ln("conv_f_assign") EXCEPT !.fld = var],
                   IF t.width = word_width /\ ind0 = 0
                   THEN WholeWord(Ln("store_conv_u"), word)
                   ELSE RangeOf(Ln("store_conv_u"), word,
                                ind0 + t.width - 1, ind0) >>)

FloatType_write_expr_impl(t, var, word, word_width, ind0) ==
    IF ind0 + t.width > word_width
    THEN Raise("FloatDoesNotFit")
    ELSE Return(<< Ln("union_decl"),
                   [Ln("conv_f_assign") EXCEPT !.fld = var],
                   RangeOf(Ln("store_conv_u"), word, ind0 + t.width - 1, ind0) >>)

EnumType_read_expr_impl(t, word, word_width, ind0) ==
    IF t.width = word_width /\ ind0 = 0
    THEN Return(<< WholeWord(Ln("expr"), word) >>)
    ELSE Return(<< RangeOf(Ln("expr"), word, ind0 + t.width - 1, ind0) >>)

(* variant: an Enum is always written through a bit range *)
EnumType_write_expr_impl_AlwaysSlice(t, var, word, word_width, ind0) ==
    Return(<< [RangeOf(Ln("store_var"), word, ind0 + t.width - 1, ind0)
                 EXCEPT !.fld = var] >>)

EnumType_write_expr_impl(t, var, word, word_width, ind0) ==
    IF t.width = word_width /\ ind0 = 0
    THEN Return(<< [WholeWord(Ln("store_var"), word) EXCEPT !.fld = var] >>)
    ELSE Return(<< [RangeOf(Ln("store_var"), word, ind0 + t.width - 1, ind0)
                      EXCEPT !.fld = var] >>)

read_expr_impl(t, word, word_width, ind0) ==
    CASE t.kind = "int"   -> IntType_read_expr_impl(t, word, word_width, ind0)
      [] t.kind = "float" -> FloatType_read_expr_impl(t, word, word_width, ind0)
      [] t.kind = "enum"  -> EnumType_read_expr_impl(t, word, word_width, ind0)

write_expr_impl(t, var, word, word_width, ind0) ==
    CASE t.kind = "int"   -> IntType_write_expr_impl(t, var, word, word_width, ind0)
      [] t.kind = "float" -> FloatType_write_expr_impl(t, var, word, word_width, ind0)
      [] t.kind = "enum"  -> EnumType_write_expr_impl(t, var, word, word_width, ind0)

(* variant: the variant implementation is entered without the check *)
read_expr_Unchecked(t, word, word_width, ind0) ==
    read_expr_impl(t, word, word_width, ind0)

read_expr(t, word, word_width, ind0) ==
    IF t.width + ind0 > word_width
    THEN Raise("SliceOverflow")
    ELSE read_expr_impl(t, word, word_width, ind0)

write_expr(t, var, word, word_width, ind0) ==
    IF t.width + ind0 > word_width
    THEN Raise("SliceOverflow")
    ELSE write_expr_impl(t, var, word, word_width, ind0)

(***************************************************************************)
(* gen_stream_read.  The loop state is the locals ind0, word_count,        *)
(* word_var and lines; place records the (word_var, ind0) each field's     *)
(* read_expr call is made with.                                            *)
(***************************************************************************)
(* variant: only the first field is checked *)
FieldTooWide_FirstOnly(fs, bus_width) ==
    fs # << >> /\ fs[1].width > bus_width

(* lines 540-546 and 597-603 *)
FieldTooWide(fs, bus_width) == \E i \in 1..Len(fs) : fs[i].width > bus_width

ReadHeader(bus_width) ==
    << [LnW("sig_read", bus_width) EXCEPT !.name = RecordName],
       Ln("bus_bits"),
       [LnW("static_assert_width", bus_width) EXCEPT !.name = RecordName] >>

(* variant: the test forgets the width of the incoming field *)
ReadOpensWord_IgnoresWidth(st, bw, bus_width) ==
    st.ind0 >= bus_width \/ st.word_var = NoWord

(* variant: a field that ends exactly at the word boundary opens a word *)
ReadOpensWord_Strict(st, bw, bus_width) ==
    st.ind0 + bw >= bus_width \/ st.word_var = NoWord

ReadOpensWord(st, bw, bus_width) ==
    st.ind0 + bw > bus_width \/ st.word_var = NoWord

(* variant: the bit index is not advanced after a field is read *)
ReadAdvance_Stuck(ind0, bw) == ind0

(* line 575 *)
ReadAdvance(ind0, bw) == ind0 + bw

ReadField(fs, i, bus_width, st) ==
    LET bw    == fs[i].width
        opens == ReadOpensWord(st, bw, bus_width)
        wv    == IF opens THEN st.word_count ELSE st.word_var
        i0    == IF opens THEN 0 ELSE st.ind0
        wc    == IF opens THEN st.word_count + 1 ELSE st.word_count
        l1    == IF opens THEN Append(st.lines, LnW("fetch", wv)) ELSE st.lines
        e     == read_expr(fs[i], wv, bus_width, i0)
    IN  IF e.raised # "none"
        THEN [st EXCEPT !.raised = e.raised]
        ELSE [st EXCEPT !.ind0 = ReadAdvance(i0, bw),
                        !.word_count = wc,
                        !.word_var = wv,
                        !.lines = l1 \o [e.segs EXCEPT ![1].fld = i],
                        !.place = Append(st.place, [word |-> wv, off |-> i0])]

RECURSIVE ReadLoop(_, _, _, _)
ReadLoop(fs, i, bus_width, st) ==
    IF i > Len(fs) \/ st.raised # "none"
    THEN st
    ELSE (* one iteration: the state after field i, computed once *)
         CHOOSE r \in { ReadLoop(fs, i + 1, bus_width, x) :
                            x \in { ReadField(fs, i, bus_width, st) } } : TRUE

gen_stream_read(fs, bus_width) ==
    IF FieldTooWide(fs, bus_width)
    THEN [raised |-> "FieldTooWide", lines |-> <<>>, place |-> <<>>, words |-> 0]
    ELSE LET st == ReadLoop(fs, 1, bus_width,
                        [ind0 |-> 0, word_count |-> 0, word_var |-> NoWord,
                         lines |-> ReadHeader(bus_width), place |-> <<>>,
                         raised |-> "none"])
         IN  IF st.raised # "none"
             THEN [raised |-> st.raised, lines |-> <<>>, place |-> <<>>, words |-> 0]
             ELSE [raised |-> "none",
                   lines  |-> st.lines \o << LnW("tlast_from", st.word_var),
                                             Ln("return_tlast") >>,
                   place  |-> st.place,
                   words  |-> st.word_count]

(***************************************************************************)
(* gen_stream_write: first pass (total_words), second pass (the text).     *)
(***************************************************************************)
WriteHeader(bus_width) ==
    << [LnW("sig_write", bus_width) EXCEPT !.name = RecordName],
       Ln("bus_bits"),
       [LnW("static_assert_width", bus_width) EXCEPT !.name = RecordName] >>

(* variant: the first pass counts a word for a field that just fits *)
FirstPassOpensWord_Strict(t, bw, bus_width) ==
    t.temp_ind + bw >= bus_width \/ t.temp_count = 0

FirstPassOpensWord(t, bw, bus_width) ==
    t.temp_ind + bw > bus_width \/ t.temp_count = 0

RECURSIVE FirstPass(_, _, _, _)
FirstPass(fs, i, bus_width, t) ==
    IF i > Len(fs)
    THEN t
    ELSE LET bw == fs[i].width
         IN  CHOOSE r \in { FirstPass(fs, i + 1, bus_width, x) :
                 x \in { IF FirstPassOpensWord(t, bw, bus_width)
                         THEN [temp_ind |-> bw, temp_count |-> t.temp_count + 1]
                         ELSE [temp_ind |-> t.temp_ind + bw,
                               temp_count |-> t.temp_count] } } : TRUE

total_words(fs, bus_width) ==
    FirstPass(fs, 1, bus_width, [temp_ind |-> 0, temp_count |-> 0]).temp_count

(* variant: the second pass opens a word for a field that just fits *)
WriteOpensWord_Strict(st, bw, bus_width) ==
    st.ind0 + bw >= bus_width \/ st.word_var = NoWord

(* line 635 *)
WriteOpensWord(st, bw, bus_width) ==
    st.ind0 + bw > bus_width \/ st.word_var = NoWord

(* variant: every word is closed with the caller's flag *)
ClosePrevious_CallerFlag(st) ==
    IF st.word_var # NoWord
    THEN << [LnW("set_last", st.word_var) EXCEPT !.flag = "tlast"],
            LnW("emit", st.word_var) >>
    ELSE << >>

(* lines 637-641: the previous word is closed with last = false *)
ClosePrevious(st) ==
    IF st.word_var # NoWord
    THEN << [LnW("set_last", st.word_var) EXCEPT !.flag = "false"],
            LnW("emit", st.word_var) >>
    ELSE << >>

(* lines 644-650 *)
StartWord(wv) ==
    << LnW("decl_word", wv), LnW("data_zero", wv),
       LnW("keep_all", wv), LnW("strb_all", wv) >>

(* variant: the bit index is not advanced *)
WriteAdvance_Stuck(ind0, bw) == ind0

(* line 657 *)
WriteAdvance(ind0, bw) == ind0 + bw

WriteField(fs, i, bus_width, st) ==
    LET bw    == fs[i].width
        opens == WriteOpensWord(st, bw, bus_width)
        wc    == IF opens THEN st.word_count + 1 ELSE st.word_count
        wv    == IF opens THEN wc - 1 ELSE st.word_var
        i0    == IF opens THEN 0 ELSE st.ind0
        l1    == IF opens
                 THEN st.lines \o ClosePrevious(st) \o StartWord(wv)
                 ELSE st.lines
        e     == write_expr(fs[i], i, wv, bus_width, i0)
    IN  IF e.raised # "none"
        THEN [st EXCEPT !.raised = e.raised]
        ELSE [st EXCEPT !.ind0 = WriteAdvance(i0, bw),
                        !.word_count = wc,
                        !.word_var = wv,
                        !.lines = l1 \o e.segs,
                        !.place = Append(st.place, [word |-> wv, off |-> i0])]

RECURSIVE WriteLoop(_, _, _, _)
WriteLoop(fs, i, bus_width, st) ==
    IF i > Len(fs) \/ st.raised # "none"
    THEN st
    ELSE (* one iteration: the state after field i, computed once *)
         CHOOSE r \in { WriteLoop(fs, i + 1, bus_width, x) :
                            x \in { WriteField(fs, i, bus_width, st) } } : TRUE

(* variant: the final word is closed like the others *)
CloseFinal_NotLast(st) ==
    IF st.word_var # NoWord
    THEN << [LnW("set_last", st.word_var) EXCEPT !.flag = "false"],
            LnW("emit", st.word_var) >>
    ELSE << >>

(* lines 659-662: the final word is closed with last = tlast *)
CloseFinal(st) ==
    IF st.word_var # NoWord
    THEN << [LnW("set_last", st.word_var) EXCEPT !.flag = "tlast"],
            LnW("emit", st.word_var) >>
    ELSE << >>

gen_stream_write(fs, bus_width) ==
    IF FieldTooWide(fs, bus_width)
    THEN [raised |-> "FieldTooWide", lines |-> <<>>, place |-> <<>>,
          words |-> 0, total_words |-> 0]
    ELSE LET st == WriteLoop(fs, 1, bus_width,
                        [ind0 |-> 0, word_count |-> 0, word_var |-> NoWord,
                         lines |-> WriteHeader(bus_width), place |-> <<>>,
                         raised |-> "none"])
         IN  IF st.raised # "none"
             THEN [raised |-> st.raised, lines |-> <<>>, place |-> <<>>,
                   words |-> 0, total_words |-> 0]
             ELSE [raised |-> "none",
                   lines  |-> st.lines \o CloseFinal(st),
                   place  |-> st.place,
                   words  |-> st.word_count,
                   total_words |-> total_words(fs, bus_width)]

(***************************************************************************)
(* gen_stream_dispatch: returns (stream_write text, stream_read text).     *)
(* widths is self.stream_bus_widths.                                       *)
(***************************************************************************)
(* variant: the failure message does not carry the record's name *)
StubDispatch_Unnamed(kind) ==
    << Ln(IF kind = "write" THEN "disp_sig_write" ELSE "disp_sig_read"),
       Ln("static_assert_never") >>
    \o (IF kind = "read" THEN << Ln("return_false") >> ELSE << >>)
    \o << Ln("end") >>

StubDispatch(kind) ==
    << Ln(IF kind = "write" THEN "disp_sig_write" ELSE "disp_sig_read"),
       [Ln("static_assert_never") EXCEPT !.name = RecordName] >>
    \o (IF kind = "read" THEN << Ln("return_false") >> ELSE << >>)
    \o << Ln("end") >>

(* variant: every branch calls the routine of the first width *)
DispatchBranch_FirstRoutine(kind, widths, i) ==
    << LnW(IF i = 1 THEN "if_constexpr" ELSE "else_if_constexpr", widths[i]),
       LnW(IF kind = "write" THEN "call_write" ELSE "call_read", widths[1]) >>

(* lines 702-707 and 722-727: one pass of the loop over the widths *)
DispatchBranch(kind, widths, i) ==
    << LnW(IF i = 1 THEN "if_constexpr" ELSE "else_if_constexpr", widths[i]),
       LnW(IF kind = "write" THEN "call_write" ELSE "call_read", widths[i]) >>

RECURSIVE DispatchBranches(_, _, _)
DispatchBranches(kind, widths, i) ==
    IF i > Len(widths)
    THEN << >>
    ELSE DispatchBranch(kind, widths, i) \o DispatchBranches(kind, widths, i + 1)

ElseAssertWidth(widths) == widths[1]

ChainDispatch(kind, widths) ==
    << Ln(IF kind = "write" THEN "disp_sig_write" ELSE "disp_sig_read"),
       Ln("bus_bits") >>
    \o DispatchBranches(kind, widths, 1)
    \o << Ln("else"),
          [LnW("static_assert_eq", ElseAssertWidth(widths)) EXCEPT !.widths = widths] >>
    \o (IF kind = "read" THEN << Ln("return_false") >> ELSE << >>)
    \o << Ln("end") >>

NoWidthsConfigured(widths) == widths = << >>

gen_stream_dispatch(widths) ==
    IF NoWidthsConfigured(widths)
    THEN [write |-> StubDispatch("write"), read |-> StubDispatch("read")]
    ELSE [write |-> ChainDispatch("write", widths),
          read  |-> ChainDispatch("read", widths)]

(***************************************************************************)
(* What a C++ build makes of a dispatcher instantiated for a stream whose  *)
(* data member is bus_bits wide: the first if-constexpr branch whose       *)
(* condition holds is the only one instantiated; with none, the else       *)
(* branch and its static_assert are.                                       *)
(***************************************************************************)
Outcome(kind, w, name) == [outcome |-> kind, w |-> w, name |-> name]

RECURSIVE Instantiate(_, _, _)
Instantiate(lines, i, bus_bits) ==
    IF i > Len(lines)
    THEN Outcome("no_call", 0, "")
    ELSE LET l == lines[i]
         IN  CASE l.op = "static_assert_never" ->
                      Outcome("static_assert_failure", 0, l.name)
               [] l.op \in {"if_constexpr", "else_if_constexpr"} ->
                      IF l.w = bus_bits
                      THEN Outcome(lines[i + 1].op, lines[i + 1].w, "")
                      ELSE Instantiate(lines, i + 2, bus_bits)
               [] l.op = "static_assert_eq" ->
                      IF l.w = bus_bits
                      THEN Outcome("no_call", 0, "")
                      ELSE Outcome("static_assert_failure", 0, "")
               [] OTHER -> Instantiate(lines, i + 1, bus_bits)

(***************************************************************************)
(* cpp_decl, preamble, gen_equality_operator, gen_string_method and        *)
(* gen_include.                                                            *)
(***************************************************************************)
(* cpp_repr: "ap_int<width>", "ap_uint<width>" or "float" *)
cpp_repr(t) ==
    CASE t.kind = "int"   -> [base |-> IF t.signed THEN "ap_int" ELSE "ap_uint",
                              width |-> t.width]
      [] t.kind = "float" -> [base |-> "float", width |-> FloatWidth]
      [] t.kind = "enum"  -> [base |-> "ap_uint", width |-> t.width]

cpp_decl(fs, i) ==
    [Ln("decl") EXCEPT !.fld = i, !.name = cpp_repr(fs[i]).base,
                       !.w = cpp_repr(fs[i]).width]

HasPreamble(t) == t.kind = "enum"

RECURSIVE Preambles(_, _)
Preambles(fs, i) ==
    IF i > Len(fs)
    THEN << >>
    ELSE (IF HasPreamble(fs[i])
          THEN << [Ln("preamble") EXCEPT !.name = fs[i].name] >>
          ELSE << >>)
         \o Preambles(fs, i + 1)

Decls(fs) == [i \in 1..Len(fs) |-> cpp_decl(fs, i)]

gen_equality_operator(fs) ==
    << [Ln("equality") EXCEPT !.widths = [i \in 1..Len(fs) |-> i]] >>

gen_string_method(fs) ==
    << Ln("to_string_open") >>
    \o [i \in 1..Len(fs) |->
           [Ln("to_string_field") EXCEPT !.fld = i,
                !.flag = IF i < Len(fs) THEN "comma" ELSE "last"]]
    \o << Ln("to_string_close") >>

(* lines 487-495: the loop over bus_widths; raised is the first exception *)
RECURSIVE StreamFunctions(_, _, _)
StreamFunctions(fs, bus_widths, i) ==
    IF i > Len(bus_widths)
    THEN [raised |-> "none", lines |-> << >>]
    ELSE LET r == gen_stream_read(fs, bus_widths[i])
             w == gen_stream_write(fs, bus_widths[i])
             rest == StreamFunctions(fs, bus_widths, i + 1)
         IN  IF r.raised # "none" THEN [raised |-> r.raised, lines |-> << >>]
             ELSE IF w.raised # "none" THEN [raised |-> w.raised, lines |-> << >>]
             ELSE IF rest.raised # "none" THEN rest
             ELSE [raised |-> "none", lines |-> r.lines \o w.lines \o rest.lines]

(* variant: the read dispatcher is appended before the write dispatcher *)
Dispatchers_ReadFirst(d) == d.read \o d.write

(* lines 497-502: the pair returned by gen_stream_dispatch, as appended *)
Dispatchers(d) == d.write \o d.read

(* variant: widths remembered from an earlier call are kept *)
StoreBusWidths_KeepsFirst(old, bus_widths) ==
    IF old = << >> THEN bus_widths ELSE old

(* line 442: self.stream_bus_widths = bus_widths *)
StoreBusWidths(old, bus_widths) == bus_widths

(* lines 456-518: the text; sbw is self.stream_bus_widths as              *)
(* gen_stream_dispatch finds it at line 498                                *)
IncludeText(fs, bus_widths, sbw) ==
    LET sf == StreamFunctions(fs, bus_widths, 1)
        d  == gen_stream_dispatch(sbw)
    IN  IF sf.raised # "none"
        THEN [raised |-> sf.raised, lines |-> << >>]
        ELSE [raised |-> "none",
              lines |-> << Ln("guard_open"), Ln("includes"),
                           [Ln("class_open") EXCEPT !.name = RecordName] >>
                        \o Preambles(fs, 1) \o Decls(fs)
                        \o sf.lines
                        \o Dispatchers(d)
                        \o gen_equality_operator(fs)
                        \o gen_string_method(fs)
                        \o << Ln("class_close"), Ln("guard_close") >>]

(* gen_include called on a record just constructed from fs                 *)
(* (stream_bus_widths = [], line 377)                                      *)
GenIncludeOnNewRecord(fs, bus_widths) ==
    IncludeText(fs, bus_widths, StoreBusWidths(<< >>, bus_widths))

(***************************************************************************)
(* The routine of the given signature line inside an include text: from    *)
(* its signature line up to the line before the next signature.            *)
(***************************************************************************)
SigOps == {"sig_read", "sig_write", "disp_sig_write", "disp_sig_read",
           "equality", "class_close"}

RECURSIVE RoutineEnd(_, _)
RoutineEnd(text, i) ==
    IF i > Len(text) \/ text[i].op \in SigOps
    THEN i - 1
    ELSE RoutineEnd(text, i + 1)

RoutineIn(text, sig, w) ==
    LET starts == { i \in 1..Len(text) : text[i].op = sig /\ text[i].w = w }
    IN  IF starts = {}
        THEN << >>
        ELSE LET i == CHOOSE i \in starts : \A j \in starts : i <= j
             IN  SubSeq(text, i, RoutineEnd(text, i + 1))

(***************************************************************************)
(* C++ meaning of the emitted routines.                                    *)
(*                                                                         *)
(* Builds: the rules a C++ build applies to the emitted statements.  A     *)
(* line "<field> = union {...} conv" is not a statement; a name may be     *)
(* declared once in the routine's scope; a word variable or conv must be   *)
(* declared above its use (wNone is never declared).                       *)
(***************************************************************************)
DeclaresWord(l) == l.op \in {"fetch", "decl_word"}

UsesWord(l) ==
    l.op \in {"expr", "conv_u_assign", "store_var", "store_conv_u", "tlast_from",
              "data_zero", "keep_all", "strb_all", "set_last", "emit"}

UsesConv(l) == l.op \in {"conv_u_assign", "conv_f", "conv_f_assign", "store_conv_u"}

NotAStatement(l) == l.op = "union_decl" /\ l.fld # 0

Builds(lines) ==
    /\ lines # << >>
    /\ \A i \in 1..Len(lines) :
          /\ ~NotAStatement(lines[i])
          /\ DeclaresWord(lines[i]) =>
                \A j \in 1..(i - 1) : ~(DeclaresWord(lines[j]) /\ lines[j].w = lines[i].w)
          /\ lines[i].op = "union_decl" =>
                \A j \in 1..(i - 1) : lines[j].op # "union_decl"
          /\ UsesWord(lines[i]) =>
                \E j \in 1..(i - 1) : DeclaresWord(lines[j]) /\ lines[j].w = lines[i].w
          /\ UsesConv(lines[i]) =>
                \E j \in 1..(i - 1) : lines[j].op = "union_decl"

(* an event of a run: what was done, to which word, for which field *)
Ev(ev, w, fld, last) == [ev |-> ev, w |-> w, fld |-> fld, last |-> last]

(* bit patterns *)
Garbage == {-1}

AllOnes(width) == 0..(width - 1)

Truncate(bits, width) == { b \in bits : b >= 0 /\ b < width }

(* x.range(hi, lo) read, and x.range(hi, lo) = v *)
RangeGet(data, hi, lo) == { b - lo : b \in { c \in data : c >= lo /\ c <= hi } }

RangeSet(data, hi, lo, v) ==
    { b \in data : b < lo \/ b > hi } \cup { b + lo : b \in Truncate(v, hi - lo + 1) }

SrcValue(l, words) ==
    IF l.src = "word" THEN words[l.w].data ELSE RangeGet(words[l.w].data, l.hi, l.lo)

Store(l, words, v, W) ==
    IF l.src = "word"
    THEN [words EXCEPT ![l.w].data = Truncate(v, W)]
    ELSE [words EXCEPT ![l.w].data = RangeSet(@, l.hi, l.lo, v)]

NewWord(words, w, val) == [k \in (DOMAIN words) \cup {w} |-> IF k = w THEN val ELSE words[k]]

(* one statement of stream_write_W; st is [pc, words, conv, tlast, log],   *)
(* obj the field values of the object, out the stream                      *)
WriteStmt(l, st, obj, out, W) ==
    CASE l.op = "decl_word" ->
             [st  |-> [st EXCEPT !.words = NewWord(@, l.w, [data |-> Garbage, last |-> "undef"])],
              out |-> out]
      [] l.op = "data_zero" ->
             [st  |-> [st EXCEPT !.words[l.w].data = {},
                                 !.log = Append(@, Ev("zero", l.w, 0, ""))],
              out |-> out]
      [] l.op = "store_var" ->
             [st  |-> [st EXCEPT !.words = Store(l, @, obj[l.fld], W),
                                 !.log = Append(@, Ev("encode", l.w, l.fld, ""))],
              out |-> out]
      [] l.op = "union_decl" ->
             [st |-> [st EXCEPT !.conv = Garbage], out |-> out]
      [] l.op = "conv_f_assign" ->
             [st |-> [st EXCEPT !.conv = obj[l.fld], !.cur = l.fld], out |-> out]
      [] l.op = "store_conv_u" ->
             [st  |-> [st EXCEPT !.words = Store(l, @, st.conv, W),
                                 !.log = Append(@, Ev("encode", l.w, st.cur, ""))],
              out |-> out]
      [] l.op = "set_last" ->
             [st  |-> [st EXCEPT !.words[l.w].last =
                                     IF l.flag = "tlast" THEN st.tlast ELSE "false",
                                 !.log = Append(@, Ev("last", l.w, 0, ""))],
              out |-> out]
      [] l.op = "emit" ->
             [st  |-> [st EXCEPT !.log = Append(@, Ev("emit", l.w, 0, st.words[l.w].last))],
              out |-> Append(out, st.words[l.w])]
      [] OTHER -> [st |-> st, out |-> out]

(* one statement of stream_read_W; st is [pc, words, conv, fld, tlast,     *)
(* ret, log]; types gives the declared width of each field                 *)
ReadStmt(l, st, in, types) ==
    CASE l.op = "fetch" ->
             [st |-> [st EXCEPT !.words = NewWord(@, l.w, Head(in)),
                                !.log = Append(@, Ev("fetch", l.w, 0, ""))],
              in |-> Tail(in)]
      [] l.op = "expr" ->
             [st |-> [st EXCEPT !.fld[l.fld] = Truncate(SrcValue(l, st.words), types[l.fld].width),
                                !.log = Append(@, Ev("decode", l.w, l.fld, ""))],
              in |-> in]
      [] l.op = "conv_u_assign" ->
             [st |-> [st EXCEPT !.conv = Truncate(SrcValue(l, st.words), FloatWidth)],
              in |-> in]
      [] l.op = "conv_f" /\ l.fld # 0 ->
             [st |-> [st EXCEPT !.fld[l.fld] = st.conv,
                                !.log = Append(@, Ev("decode", l.w, l.fld, ""))],
              in |-> in]
      [] l.op = "tlast_from" ->
             [st |-> [st EXCEPT !.tlast = st.words[l.w].last], in |-> in]
      [] l.op = "return_tlast" ->
             [st |-> [st EXCEPT !.ret = st.tlast], in |-> in]
      [] OTHER -> [st |-> st, in |-> in]

(***************************************************************************)
(* State.                                                                  *)
(***************************************************************************)
VARIABLES
    fields,             \* self.fields
    stream_bus_widths,  \* self.stream_bus_widths
    file,               \* the text at file_path, NoFile when absent
    ret,                \* what the last call returned or raised
    prog,               \* the routines of the built include file in use
    obj,                \* field values of the object stream_write is called on
    wr,                 \* the running stream_write_W call
    chan,               \* the hls::stream between writer and reader
    rd                  \* the running stream_read_W call

gvars == << fields, stream_bus_widths, file, ret >>

rvars == << prog, obj, wr, chan, rd >>

vars == << fields, stream_bus_widths, file, ret, prog, obj, wr, chan, rd >>

NoFile == << >>

Result(op, arg, raised, out) ==
    [op |-> op, arg |-> arg, raised |-> raised, out |-> out]

NoneOut == [lines |-> << >>, place |-> << >>, words |-> 0, total_words |-> 0,
            write |-> << >>, read |-> << >>,
            dtype |-> NoType, entries |-> << >>, next_val |-> 0,
            sampled |-> << >>, bursts |-> << >>, clk_period |-> 0]

(* the width lists gen_include is called with: no width twice *)
WidthLists ==
    { ws \in UNION { [1..n -> BusWidths] : n \in 0..MaxWidths } :
          \A i, j \in 1..Len(ws) : i # j => ws[i] # ws[j] }

NoProg == [W |-> 0, types |-> << >>, write |-> << >>, read |-> << >>]

NoWords == [k \in {} |-> 0]

WrIdle == [pc |-> 0, words |-> NoWords, conv |-> Garbage, cur |-> 0,
           tlast |-> "undef", log |-> << >>]

RdIdle == [pc |-> 0, words |-> NoWords, conv |-> Garbage, fld |-> << >>,
           tlast |-> "undef", ret |-> "undef", log |-> << >>]

GenInit ==
    /\ fields = << >>
    /\ stream_bus_widths = << >>
    /\ file = NoFile
    /\ ret = Result("init", << >>, "none", NoneOut)

RunIdle ==
    /\ prog = NoProg
    /\ obj = << >>
    /\ wr = WrIdle
    /\ chan = << >>
    /\ rd = RdIdle

Init == GenInit /\ RunIdle

(***************************************************************************)
(* Operations of DataStructGen.                                            *)
(***************************************************************************)
add_field(t) ==
    /\ prog = NoProg
    /\ Len(fields) < MaxFields
    /\ fields' = Append(fields, t)
    /\ ret' = Result("add_field", << >>, "none", NoneOut)
    /\ UNCHANGED << stream_bus_widths, file >>
    /\ UNCHANGED rvars

call_gen_stream_read(bus_width) ==
    LET r == gen_stream_read(fields, bus_width)
    IN  /\ ret' = Result("gen_stream_read", << bus_width >>, r.raised,
                         [NoneOut EXCEPT !.lines = r.lines, !.place = r.place,
                                         !.words = r.words])
        /\ UNCHANGED << fields, stream_bus_widths, file >>
        /\ UNCHANGED rvars

call_gen_stream_write(bus_width) ==
    LET r == gen_stream_write(fields, bus_width)
    IN  /\ ret' = Result("gen_stream_write", << bus_width >>, r.raised,
                         [NoneOut EXCEPT !.lines = r.lines, !.place = r.place,
                                         !.words = r.words,
                                         !.total_words = r.total_words])
        /\ UNCHANGED << fields, stream_bus_widths, file >>
        /\ UNCHANGED rvars

call_gen_stream_dispatch ==
    LET d == gen_stream_dispatch(stream_bus_widths)
    IN  /\ ret' = Result("gen_stream_dispatch", << >>, "none",
                         [NoneOut EXCEPT !.write = d.write, !.read = d.read])
        /\ UNCHANGED << fields, stream_bus_widths, file >>
        /\ UNCHANGED rvars

(* gen_include(bus_widths = ws); the file at file_path is removed before   *)
(* the text is built and written after it.                                 *)
gen_include(ws) ==
    /\ prog = NoProg
    /\ \E sbw \in { StoreBusWidths(stream_bus_widths, ws) } :
       \E t \in { IncludeText(fields, ws, sbw) } :
        /\ stream_bus_widths' = sbw
        /\ file' = IF t.raised = "none" THEN t.lines ELSE NoFile
        /\ ret' = Result("gen_include", ws, t.raised, NoneOut)
    /\ UNCHANGED fields
    /\ UNCHANGED rvars

(* gen_include() with bus_widths = None *)
gen_include_default == gen_include(<< DefaultBusWidth >>)

(***************************************************************************)
(* The packer-level specification: records are built and the two           *)
(* width-specific generators are called on them.                           *)
(***************************************************************************)
Next ==
    \/ \E t \in FieldTypes : add_field(t)
    \/ \E w \in BusWidths : call_gen_stream_read(w)
    \/ \E w \in BusWidths : call_gen_stream_write(w)

Spec == Init /\ [][Next]_vars

(***************************************************************************)
(* The include-level specification: records are built, include files       *)
(* generated for width lists, dispatchers generated.                       *)
(***************************************************************************)
IncludeFieldTypes == { IntType(8, FALSE), FloatType, EnumTypeOfWidth("Mode", 2) }

IncludeNext ==
    \/ \E t \in IncludeFieldTypes : add_field(t)
    \/ \E ws \in WidthLists : gen_include(ws)
    \/ gen_include_default
    \/ call_gen_stream_dispatch

SpecInclude == Init /\ [][IncludeNext]_vars

(***************************************************************************)
(* The call-history specification: every generation call of the record,    *)
(* in any order, successful or failing.                                    *)
(***************************************************************************)
HistoryFieldTypes == { IntType(8, FALSE), FloatType }

HistoryNext ==
    \/ \E t \in HistoryFieldTypes : add_field(t)
    \/ \E ws \in WidthLists : gen_include(ws)
    \/ gen_include_default
    \/ call_gen_stream_dispatch
    \/ \E w \in BusWidths : call_gen_stream_read(w)
    \/ \E w \in BusWidths : call_gen_stream_write(w)

SpecHistory == Init /\ [][HistoryNext]_vars

(***************************************************************************)
(* The expression-level specification: read_expr and write_expr of every   *)
(* variant are called directly, with offsets that fit and offsets that do  *)
(* not.                                                                    *)
(***************************************************************************)
ExprWidths == {2, 16, 32}

ExprTypes ==
    { IntType(w, sg) : w \in ExprWidths, sg \in BOOLEAN }
    \cup { EnumTypeOfWidth("Mode", w) : w \in ExprWidths }
    \cup { FloatType }

Offsets == {0, 1, 14, 16, 30, 32, 48, 62}

(* the word variable and the field the direct calls name *)
ExprWord == 0

ExprVar == 1

call_read_expr(t, word_width, ind0) ==
    /\ \E e \in { read_expr(t, ExprWord, word_width, ind0) } :
          ret' = Result("read_expr", << t, word_width, ind0 >>, e.raised,
                        [NoneOut EXCEPT !.lines = e.segs])
    /\ UNCHANGED << fields, stream_bus_widths, file >>
    /\ UNCHANGED rvars

call_write_expr(t, word_width, ind0) ==
    /\ \E e \in { write_expr(t, ExprVar, ExprWord, word_width, ind0) } :
          ret' = Result("write_expr", << t, word_width, ind0 >>, e.raised,
                        [NoneOut EXCEPT !.lines = e.segs])
    /\ UNCHANGED << fields, stream_bus_widths, file >>
    /\ UNCHANGED rvars

ExprNext ==
    \/ \E t \in ExprTypes, w \in BusWidths, o \in Offsets : call_read_expr(t, w, o)
    \/ \E t \in ExprTypes, w \in BusWidths, o \in Offsets : call_write_expr(t, w, o)

SpecExpr == Init /\ [][ExprNext]_vars

(***************************************************************************)
(* The construction-level specification: the type constructors are called  *)
(* with valid and invalid arguments.                                       *)
(***************************************************************************)
MaxEntries == 3

EntryValues == {-1, 0, 10}

Entries == { StrEntry, OtherEntry } \cup { TupleEntry(v) : v \in EntryValues }

EntryLists == UNION { [1..n -> Entries] : n \in 0..MaxEntries }

WidthArgs == { << >>, << 0 >>, << 3 >> }

IntWidthArgs == {-1, 0, 1, 8}

TypeOut(r) ==
    [NoneOut EXCEPT !.dtype = r.dtype, !.entries = r.entries,
                    !.next_val = r.next_val]

new_IntType(width, signed) ==
    /\ \E r \in { IntType_init(width, signed) } :
          ret' = Result("IntType", << width, signed >>, r.raised, TypeOut(r))
    /\ UNCHANGED << fields, stream_bus_widths, file >>
    /\ UNCHANGED rvars

new_FloatType ==
    /\ \E r \in { FloatType_init } :
          ret' = Result("FloatType", << >>, r.raised, TypeOut(r))
    /\ UNCHANGED << fields, stream_bus_widths, file >>
    /\ UNCHANGED rvars

new_EnumType(entries, width) ==
    /\ \E r \in { EnumType_init("Mode", entries, width) } :
          ret' = Result("EnumType", << entries, width >>, r.raised, TypeOut(r))
    /\ UNCHANGED << fields, stream_bus_widths, file >>
    /\ UNCHANGED rvars

TypesNext ==
    \/ \E w \in IntWidthArgs, sg \in BOOLEAN : new_IntType(w, sg)
    \/ new_FloatType
    \/ \E es \in EntryLists, w \in WidthArgs : new_EnumType(es, w)

SpecTypes == Init /\ [][TypesNext]_vars

(***************************************************************************)
(* The run-level specification: an include file is generated for one       *)
(* width, built, and a program calls stream_write_W on an object and then  *)
(* stream_read_W on the words written, statement by statement.             *)
(***************************************************************************)
Patterns == {"odd", "even", "msb"}

SampleValue(p, i, width) ==
    CASE p = "odd"  -> IF i % 2 = 1 THEN AllOnes(width) ELSE {}
      [] p = "even" -> IF i % 2 = 0 THEN AllOnes(width) ELSE {}
      [] p = "msb"  -> {width - 1}

WidthSet(ws) == { ws[i] : i \in 1..Len(ws) }

HeaderBuilds(text, ws) ==
    \A w \in WidthSet(ws) :
        /\ Builds(RoutineIn(text, "sig_read", w))
        /\ Builds(RoutineIn(text, "sig_write", w))

(* the member variables the class of an include text declares *)
DeclaredMembers(text) ==
    LET ds == SelectSeq(text, LAMBDA l : l.op = "decl")
    IN  [i \in 1..Len(ds) |-> [base |-> ds[i].name, width |-> ds[i].w]]

(* the C++ build of a program that includes the file and uses width W *)
Load(W) ==
    /\ prog = NoProg
    /\ file # NoFile
    /\ W \in WidthSet(stream_bus_widths)
    /\ HeaderBuilds(file, stream_bus_widths)
    /\ prog' = [W |-> W, types |-> DeclaredMembers(file),
                write |-> RoutineIn(file, "sig_write", W),
                read  |-> RoutineIn(file, "sig_read", W)]
    /\ UNCHANGED << obj, wr, chan, rd >>
    /\ UNCHANGED gvars

call_stream_write(p, tl) ==
    /\ prog # NoProg
    /\ wr.pc = 0
    /\ obj' = [i \in 1..Len(prog.types) |-> SampleValue(p, i, prog.types[i].width)]
    /\ wr' = [WrIdle EXCEPT !.pc = 1, !.tlast = tl]
    /\ UNCHANGED << prog, chan, rd >>
    /\ UNCHANGED gvars

WriteDone == prog # NoProg /\ wr.pc = Len(prog.write) + 1

write_step ==
    /\ prog # NoProg
    /\ wr.pc \in 1..Len(prog.write)
    /\ LET r == WriteStmt(prog.write[wr.pc], wr, obj, chan, prog.W)
       IN  /\ wr' = [r.st EXCEPT !.pc = wr.pc + 1]
           /\ chan' = r.out
    /\ UNCHANGED << prog, obj, rd >>
    /\ UNCHANGED gvars

call_stream_read ==
    /\ WriteDone
    /\ rd.pc = 0
    /\ rd' = [RdIdle EXCEPT !.pc = 1, !.fld = [i \in 1..Len(prog.types) |-> Garbage]]
    /\ UNCHANGED << prog, obj, wr, chan >>
    /\ UNCHANGED gvars

ReadDone == prog # NoProg /\ rd.pc = Len(prog.read) + 1

read_step ==
    /\ prog # NoProg
    /\ rd.pc \in 1..Len(prog.read)
    /\ prog.read[rd.pc].op = "fetch" => chan # << >>
    /\ LET r == ReadStmt(prog.read[rd.pc], rd, chan, prog.types)
       IN  /\ rd' = [r.st EXCEPT !.pc = rd.pc + 1]
           /\ chan' = r.in
    /\ UNCHANGED << prog, obj, wr >>
    /\ UNCHANGED gvars

RunNext ==
    \/ \E t \in FieldTypes : add_field(t)
    \/ \E w \in BusWidths : gen_include(<< w >>)
    \/ \E w \in BusWidths : Load(w)
    \/ \E p \in Patterns, tl \in {"true", "false"} : call_stream_write(p, tl)
    \/ write_step
    \/ call_stream_read
    \/ read_step

SpecRun == Init /\ [][RunNext]_vars

(***************************************************************************)
(* Properties of the packer (specification Spec).                          *)
(***************************************************************************)
CountOp(lines, op) == Cardinality({ i \in 1..Len(lines) : lines[i].op = op })

RECURSIVE SumWidths(_, _)
SumWidths(fs, S) ==
    IF S = {} THEN 0
    ELSE LET i == CHOOSE i \in S : TRUE
         IN  fs[i].width + SumWidths(fs, S \ {i})

(* the last call was gen_stream_read or gen_stream_write for width W on    *)
(* the current field list                                                  *)
StreamGenCalled(W) ==
    /\ ret.op \in {"gen_stream_read", "gen_stream_write"}
    /\ ret.arg = << W >>

AllFit(fs, W) == \A i \in 1..Len(fs) : fs[i].width <= W

Placed(W) == StreamGenCalled(W) /\ AllFit(fields, W)

(* number of in.read() or out.write() statements of the returned routine *)
WordsOf(out) == CountOp(out.lines, "fetch") + CountOp(out.lines, "emit")

(* C2: when every field's width is <= bus_width, gen_stream_read and       *)
(* gen_stream_write raise no error (no read_expr / write_expr call fails   *)
(* the slice check) and place every field at an offset with                *)
(* 0 <= offset and offset + width <= bus_width.                            *)
FieldsNeverSplit ==
    \A W \in BusWidths :
        Placed(W) =>
            /\ ret.raised = "none"
            /\ Len(ret.out.place) = Len(fields)
            /\ \A i \in 1..Len(fields) :
                  /\ ret.out.place[i].off >= 0
                  /\ ret.out.place[i].off + fields[i].width <= W

(* a field that ends exactly on the word boundary, not at offset 0 *)
FieldsNeverSplit_Witness ==
    /\ ret.op = "gen_stream_write"
    /\ ret.raised = "none"
    /\ \E i \in 1..Len(ret.out.place) :
          /\ ret.out.place[i].off > 0
          /\ ret.out.place[i].off + fields[i].width = ret.arg[1]

(* C3: when every field's width is <= W, two distinct fields placed in     *)
(* the same word by gen_stream_read / gen_stream_write have disjoint bit   *)
(* ranges [offset, offset + width - 1].                                    *)
BitRange(i) ==
    ret.out.place[i].off .. (ret.out.place[i].off + fields[i].width - 1)

NoOverlapInWord ==
    \A W \in BusWidths :
        Placed(W) =>
            /\ Len(ret.out.place) = Len(fields)
            /\ \A i, j \in 1..Len(fields) :
                  (i # j /\ ret.out.place[i].word = ret.out.place[j].word)
                      => BitRange(i) \cap BitRange(j) = {}

(* three fields share one word and a fourth word is not needed *)
NoOverlapInWord_Witness ==
    /\ ret.op = "gen_stream_write"
    /\ ret.raised = "none"
    /\ Len(fields) = 3
    /\ \A i \in 1..3 : ret.out.place[i].word = 0
    /\ ret.out.place[3].off > ret.out.place[2].off

(* C4: the packer is one greedy pass in declaration order.  A field opens  *)
(* a new word exactly when it is the first field or current_offset + width *)
(* > W, and is then at offset 0 of the next word index; otherwise it is in *)
(* the current word at current_offset, the sum of the widths of the fields *)
(* already placed in that word.  Widths (20, 20) at W = 32 give (word 0,   *)
(* offset 0), (word 1, offset 0) and two words.                            *)
CurrentOffset(pl, i) ==
    IF i = 1 THEN 0 ELSE pl[i - 1].off + fields[i - 1].width

GreedyStep(pl, i, W) ==
    IF i = 1 \/ CurrentOffset(pl, i) + fields[i].width > W
    THEN /\ pl[i].off = 0
         /\ pl[i].word = IF i = 1 THEN 0 ELSE pl[i - 1].word + 1
    ELSE /\ pl[i].word = pl[i - 1].word
         /\ pl[i].off = CurrentOffset(pl, i)
         /\ pl[i].off = SumWidths(fields, { j \in 1..(i - 1) : pl[j].word = pl[i].word })

TwentyTwenty == << IntType(20, TRUE), IntType(20, TRUE) >>

GreedyPacking ==
    \A W \in BusWidths :
        Placed(W) =>
            /\ Len(ret.out.place) = Len(fields)
            /\ \A i \in 1..Len(fields) : GreedyStep(ret.out.place, i, W)
            /\ (fields = TwentyTwenty /\ W = 32) =>
                  /\ ret.out.place = << [word |-> 0, off |-> 0], [word |-> 1, off |-> 0] >>
                  /\ WordsOf(ret.out) = 2

GreedyPacking_Witness ==
    /\ ret.op = "gen_stream_read"
    /\ ret.arg = << 32 >>
    /\ fields = TwentyTwenty
    /\ ret.out.place = << [word |-> 0, off |-> 0], [word |-> 1, off |-> 0] >>

(* The "knapsack arrival" count: the number of fields at whose arrival the *)
(* running offset would exceed W.                                          *)
RECURSIVE Arrivals(_, _, _, _)
Arrivals(fs, i, W, running) ==
    IF i > Len(fs) THEN 0
    ELSE IF running + fs[i].width > W
         THEN 1 + Arrivals(fs, i + 1, W, fs[i].width)
         ELSE Arrivals(fs, i + 1, W, running + fs[i].width)

WordCountsAgree ==
    ret.op = "gen_stream_write" =>
        /\ ret.out.total_words = CountOp(ret.out.lines, "emit")
        /\ ret.out.total_words = CountOp(ret.out.lines, "decl_word")

(* C5 as stated: the word count (in.read() calls, out.write() calls,       *)
(* total_words) equals the number of times the running offset would exceed *)
(* W when the next field is added.                                         *)
WordCountIsArrivalCount ==
    \A W \in BusWidths :
        Placed(W) =>
            /\ WordsOf(ret.out) = Arrivals(fields, 1, W, 0)
            /\ WordCountsAgree

(* C5 amended: the three word counts agree; they are 0 for the empty list  *)
(* and one more than the arrival count for a non-empty list (the first     *)
(* word is opened because no word is open, not because of an overflow).    *)
WordCountIsArrivalCountPlusOne ==
    \A W \in BusWidths :
        Placed(W) =>
            /\ WordsOf(ret.out) =
                  IF fields = << >> THEN 0 ELSE 1 + Arrivals(fields, 1, W, 0)
            /\ WordCountsAgree

WordCountIsArrivalCountPlusOne_Witness ==
    /\ ret.op = "gen_stream_write"
    /\ ret.raised = "none"
    /\ ret.out.total_words = 3
    /\ Arrivals(fields, 1, ret.arg[1], 0) = 2

(* C7 as stated: for every field list, the empty one included, the read    *)
(* routine has one fetch per word of the placement, each fetch stands      *)
(* before every decode from its word, and the flag returned is the last    *)
(* flag of the final word fetched, a word the routine declared.            *)
DecodeOps == {"expr", "conv_u_assign"}

PlacementWords(pl) == { pl[i].word : i \in 1..Len(pl) }

ReadFetchesThenDecodes(lines, pl) ==
    /\ \A k \in PlacementWords(pl) :
          Cardinality({ i \in 1..Len(lines) : lines[i].op = "fetch" /\ lines[i].w = k }) = 1
    /\ CountOp(lines, "fetch") = Cardinality(PlacementWords(pl))
    /\ \A i \in 1..Len(lines) :
          lines[i].op \in DecodeOps =>
              \E j \in 1..(i - 1) : lines[j].op = "fetch" /\ lines[j].w = lines[i].w

FlagOfFinalFetchedWord(lines) ==
    \E i, j \in 1..Len(lines) :
        /\ lines[i].op = "tlast_from"
        /\ lines[j].op = "fetch"
        /\ j < i
        /\ lines[j].w = lines[i].w
        /\ \A k \in 1..Len(lines) : lines[k].op = "fetch" => k <= j

ReadFlagFromFetchedWord ==
    (ret.op = "gen_stream_read" /\ ret.raised = "none") =>
        /\ ReadFetchesThenDecodes(ret.out.lines, ret.out.place)
        /\ FlagOfFinalFetchedWord(ret.out.lines)

(***************************************************************************)
(* Properties of the emitted routines (specification SpecRun).             *)
(***************************************************************************)
(* the include file was just generated for the current field list and no   *)
(* program has been built from it yet                                      *)
Generated ==
    ret.op = "gen_include" /\ ret.raised = "none" /\ file # NoFile /\ prog = NoProg

WriteRoutine(w) == RoutineIn(file, "sig_write", w)

ReadRoutine(w) == RoutineIn(file, "sig_read", w)

EncodeOps == {"store_var", "store_conv_u"}

Lines(lines, op, k) == { i \in 1..Len(lines) : lines[i].op = op /\ lines[i].w = k }

The(S) == CHOOSE i \in S : TRUE

(* the word whose data the encode of field f is stored into *)
EncodedInto(lines, f) ==
    { lines[i].w : i \in { i \in 1..Len(lines) :
          \/ lines[i].op = "store_var" /\ lines[i].fld = f
          \/ /\ lines[i].op = "store_conv_u"
             /\ \E j \in 1..(i - 1) :
                   /\ lines[j].op = "conv_f_assign" /\ lines[j].fld = f
                   /\ \A m \in (j + 1)..(i - 1) : lines[m].op # "store_conv_u" } }

DecodedFrom(lines, f) ==
    { lines[i].w : i \in { i \in 1..Len(lines) :
          \/ lines[i].op = "expr" /\ lines[i].fld = f
          \/ /\ lines[i].op = "conv_u_assign"
             /\ \E j \in 1..(i - 1) :
                   /\ lines[j].op = "union_decl" /\ lines[j].fld = f
                   /\ \A m \in (j + 1)..(i - 1) : lines[m].op # "conv_u_assign" } }

(* the text of a write routine: word blocks 0..n-1 in order, each          *)
(* zero, encodes, last flag, out.write                                     *)
WriteTextInOrder(lines, n) ==
    /\ CountOp(lines, "emit") = n
    /\ CountOp(lines, "data_zero") = n
    /\ CountOp(lines, "set_last") = n
    /\ \A i \in 1..Len(lines) : lines[i].op \in EncodeOps => lines[i].w \in 0..(n - 1)
    /\ \A k \in 0..(n - 1) :
          /\ Cardinality(Lines(lines, "data_zero", k)) = 1
          /\ Cardinality(Lines(lines, "set_last", k)) = 1
          /\ Cardinality(Lines(lines, "emit", k)) = 1
          /\ LET z == The(Lines(lines, "data_zero", k))
                 l == The(Lines(lines, "set_last", k))
                 e == The(Lines(lines, "emit", k))
             IN  /\ z < l /\ l < e
                 /\ \A i \in 1..Len(lines) :
                       (lines[i].op \in EncodeOps /\ lines[i].w = k) => (z < i /\ i < l)
                 /\ lines[l].flag = IF k = n - 1 THEN "tlast" ELSE "false"
                 /\ k > 0 => The(Lines(lines, "emit", k - 1)) < z

Emits(log) == SelectSeq(log, LAMBDA e : e.ev = "emit")

(* the events of a write run so far: words in increasing order, for each   *)
(* word zero, then encodes, then the flag, then the emission               *)
WriteRunInOrder(log, n, tlast) ==
    /\ \A j \in 1..Len(Emits(log)) :
          /\ Emits(log)[j].w = j - 1
          /\ Emits(log)[j].last = IF j = n THEN tlast ELSE "false"
    /\ \A i, j \in 1..Len(log) : i < j => log[i].w <= log[j].w
    /\ \A i, j \in 1..Len(log) :
          (i < j /\ log[i].w = log[j].w) =>
              /\ log[j].ev # "zero"
              /\ log[i].ev # "emit"
              /\ log[i].ev = "last" => log[j].ev = "emit"

(* C6: for a non-empty field list with widths <= W the write routine       *)
(* handles the words in increasing index; for each word it sets data to    *)
(* zero, applies the encodes of exactly the fields placed in that word     *)
(* (the fields the read routine decodes from it), sets the last flag and   *)
(* emits the word with one out.write; each word is emitted once, every     *)
(* word but the final one with last = false, the final one with the        *)
(* caller's tlast.  Stated of the generated text and of every run of it.   *)
WriteRoutineOrder ==
    /\ (Generated /\ fields # << >>) =>
          \A w \in WidthSet(stream_bus_widths) :
              /\ WriteTextInOrder(WriteRoutine(w), CountOp(ReadRoutine(w), "fetch"))
              /\ CountOp(WriteRoutine(w), "emit") >= 1
              /\ \A f \in 1..Len(fields) :
                    /\ Cardinality(EncodedInto(WriteRoutine(w), f)) = 1
                    /\ EncodedInto(WriteRoutine(w), f) = DecodedFrom(ReadRoutine(w), f)
    /\ prog # NoProg =>
          /\ WriteRunInOrder(wr.log, CountOp(prog.write, "decl_word"), wr.tlast)
          /\ WriteDone =>
                /\ Len(Emits(wr.log)) = CountOp(prog.write, "decl_word")
                /\ \A f \in 1..Len(prog.types) :
                      Cardinality({ i \in 1..Len(wr.log) :
                          wr.log[i].ev = "encode" /\ wr.log[i].fld = f }) = 1

(* a finished run of three words ended by the caller with tlast = true *)
WriteRoutineOrder_Witness ==
    /\ WriteDone
    /\ wr.tlast = "true"
    /\ Len(Emits(wr.log)) = 3
    /\ Emits(wr.log)[3].last = "true"
    /\ Emits(wr.log)[1].last = "false"

ByteThenShort == << cpp_repr(IntType(8, FALSE)), cpp_repr(IntType(16, TRUE)) >>

(* C8: for a non-empty field list the read routine consumes as many words  *)
(* as the write routine emits, and reading the words written by            *)
(* stream_write_W(out, tlast) returns that tlast.  For a (unsigned 8),     *)
(* b (signed 16) at W = 32: one word, a at offset 0, b at offset 8, the    *)
(* word's last flag is the caller's and is the flag the reader reports.    *)
ReadReturnsWrittenFlag ==
    /\ (Generated /\ fields # << >>) =>
          \A w \in WidthSet(stream_bus_widths) :
              CountOp(ReadRoutine(w), "fetch") = CountOp(WriteRoutine(w), "emit")
    /\ ReadDone =>
          /\ rd.ret = wr.tlast
          /\ chan = << >>
          /\ Cardinality({ i \in 1..Len(rd.log) : rd.log[i].ev = "fetch" })
                = Len(Emits(wr.log))
    /\ (prog # NoProg /\ prog.types = ByteThenShort /\ prog.W = 32) =>
          /\ CountOp(prog.write, "emit") = 1
          /\ \E i \in 1..Len(prog.write) :
                prog.write[i] = [RangeOf(Ln("store_var"), 0, 7, 0) EXCEPT !.fld = 1]
          /\ \E i \in 1..Len(prog.write) :
                prog.write[i] = [RangeOf(Ln("store_var"), 0, 23, 8) EXCEPT !.fld = 2]
          /\ WriteDone => Emits(wr.log) = << Ev("emit", 0, 0, wr.tlast) >>

ReadReturnsWrittenFlag_Witness ==
    /\ ReadDone
    /\ prog.types = ByteThenShort
    /\ prog.W = 32
    /\ wr.tlast = "true"
    /\ rd.ret = "true"

(* C1 as stated: for every record of Integer, Float and Enum fields with   *)
(* widths <= W, the generated stream_write_W and stream_read_W are         *)
(* routines of a C++ program, and reading the words written restores       *)
(* every field bit for bit.                                                *)
RoundTripRestoresFields ==
    /\ (Generated /\ fields # << >>) => HeaderBuilds(file, stream_bus_widths)
    /\ ReadDone => rd.fld = obj

(* what holds of the records that build: the written fields come back *)
RoundTripOfBuiltRecords == ReadDone => rd.fld = obj

(***************************************************************************)
(* Properties of the dispatchers (specification SpecInclude).              *)
(***************************************************************************)
CallSiteWidths == BusWidths \cup {8, 128}

DispatcherIn(text, kind) ==
    RoutineIn(text, IF kind = "write" THEN "disp_sig_write" ELSE "disp_sig_read", NoWord)

(* C9: after gen_include with a non-empty width list, the stream_read and  *)
(* stream_write dispatchers of the file resolve a call-site width w to     *)
(* stream_read_w / stream_write_w, a routine of the file, when w is        *)
(* configured, and to a static_assert failure for every other width.       *)
DispatcherSelectsConfiguredWidth ==
    (file # NoFile /\ stream_bus_widths # << >>) =>
        \A w \in CallSiteWidths :
            LET r == Instantiate(DispatcherIn(file, "read"), 1, w)
                s == Instantiate(DispatcherIn(file, "write"), 1, w)
            IN  IF w \in WidthSet(stream_bus_widths)
                THEN /\ r = Outcome("call_read", w, "")
                     /\ s = Outcome("call_write", w, "")
                     /\ ReadRoutine(w) # << >>
                     /\ WriteRoutine(w) # << >>
                ELSE /\ r.outcome = "static_assert_failure"
                     /\ s.outcome = "static_assert_failure"

DispatcherSelectsConfiguredWidth_Witness ==
    /\ file # NoFile
    /\ Len(stream_bus_widths) = 2
    /\ fields # << >>
    /\ Instantiate(DispatcherIn(file, "read"), 1, stream_bus_widths[2])
          = Outcome("call_read", stream_bus_widths[2], "")

AlwaysFailsNamingRecord(lines) ==
    /\ lines # << >>
    /\ \A w \in CallSiteWidths :
          Instantiate(lines, 1, w) = Outcome("static_assert_failure", 0, RecordName)

(* C10: with no widths configured (gen_stream_dispatch on a record never   *)
(* generated, gen_include with an empty width list) generation does not    *)
(* raise, both dispatchers are emitted, and each fails the build for every *)
(* width with a message that names the record.                             *)
NoWidthsGivesFailingStub ==
    /\ (ret.op = "gen_stream_dispatch" /\ stream_bus_widths = << >>) =>
          /\ ret.raised = "none"
          /\ AlwaysFailsNamingRecord(ret.out.read)
          /\ AlwaysFailsNamingRecord(ret.out.write)
    /\ (ret.op = "gen_include" /\ ret.arg = << >>) =>
          /\ ret.raised = "none"
          /\ file # NoFile
          /\ AlwaysFailsNamingRecord(DispatcherIn(file, "read"))
          /\ AlwaysFailsNamingRecord(DispatcherIn(file, "write"))

NoWidthsGivesFailingStub_Witness ==
    /\ ret.op = "gen_include"
    /\ ret.arg = << >>
    /\ Len(fields) >= 2
    /\ AlwaysFailsNamingRecord(DispatcherIn(file, "write"))

(***************************************************************************)
(* Validation of the width-specific generators (specification Spec).       *)
(***************************************************************************)
(* C11: gen_stream_read(W) and gen_stream_write(W) raise the field-too-    *)
(* wide error exactly when some field of the list, at any position, has    *)
(* width > W; a call that raises returns no routine text and no            *)
(* placement.                                                              *)
TooWideIsRejectedUpFront ==
    \A W \in BusWidths :
        StreamGenCalled(W) =>
            /\ (ret.raised = "FieldTooWide") <=> ~AllFit(fields, W)
            /\ ~AllFit(fields, W) =>
                  /\ ret.out.lines = << >>
                  /\ ret.out.place = << >>
                  /\ WordsOf(ret.out) = 0

TooWideIsRejectedUpFront_Witness ==
    /\ ret.op = "gen_stream_write"
    /\ ret.raised = "FieldTooWide"
    /\ Len(fields) = 3
    /\ fields[1].width <= ret.arg[1]
    /\ fields[2].width <= ret.arg[1]
    /\ fields[3].width > ret.arg[1]

(***************************************************************************)
(* Effects and determinism of gen_include (specifications SpecInclude     *)
(* and SpecHistory).                                                       *)
(***************************************************************************)
(* C12 as stated: a gen_include call that raises leaves the file at the    *)
(* target path and stream_bus_widths as they were before the call.         *)
FailedIncludeHasNoEffect ==
    [][ (ret'.op = "gen_include" /\ ret'.raised # "none") =>
            /\ file' = file
            /\ stream_bus_widths' = stream_bus_widths ]_vars

(* C14: whatever calls came before, a gen_include call raises or returns   *)
(* as it does on a record just constructed from the same field list, a     *)
(* successful call writes the same text, and the routines for each width   *)
(* in it are those gen_stream_read / gen_stream_write give for that width  *)
(* alone.                                                                  *)
GenerationIsHistoryIndependent ==
    ret.op = "gen_include" =>
        LET fresh == GenIncludeOnNewRecord(fields, ret.arg)
        IN  /\ ret.raised = fresh.raised
            /\ ret.raised = "none" =>
                  /\ file = fresh.lines
                  /\ \A i \in 1..Len(ret.arg) :
                        /\ RoutineIn(file, "sig_read", ret.arg[i])
                              = gen_stream_read(fields, ret.arg[i]).lines
                        /\ RoutineIn(file, "sig_write", ret.arg[i])
                              = gen_stream_write(fields, ret.arg[i]).lines

GenerationIsHistoryIndependent_Witness ==
    /\ ret.op = "gen_include"
    /\ ret.raised = "none"
    /\ Len(ret.arg) = 2
    /\ Len(fields) >= 2
    /\ file = GenIncludeOnNewRecord(fields, ret.arg).lines

(***************************************************************************)
(* Properties of read_expr / write_expr (specification SpecExpr).          *)
(***************************************************************************)
ExprCalled == ret.op \in {"read_expr", "write_expr"}

(* what the variant implementation returns for the arguments of the call *)
VariantExpr(op, t, word_width, ind0) ==
    IF op = "read_expr"
    THEN read_expr_impl(t, ExprWord, word_width, ind0)
    ELSE write_expr_impl(t, ExprVar, ExprWord, word_width, ind0)

(* C13: read_expr and write_expr of every variant raise the width-overflow *)
(* error of the base class exactly when ind0 + width > word_width, the     *)
(* variant's own code not being reached then; in every other case they     *)
(* return the variant's expression and do not raise.                       *)
SliceCheckPrecedesVariant ==
    ExprCalled =>
        LET t    == ret.arg[1]
            W    == ret.arg[2]
            ind0 == ret.arg[3]
        IN  IF ind0 + t.width > W
            THEN /\ ret.raised = "SliceOverflow"
                 /\ ret.out.lines = << >>
            ELSE /\ ret.raised = "none"
                 /\ ret.out.lines # << >>
                 /\ ret.out.lines = VariantExpr(ret.op, t, W, ind0).segs

SliceCheckPrecedesVariant_Witness ==
    /\ ret.op = "read_expr"
    /\ ret.arg[1] = FloatType
    /\ ret.arg[2] = 32
    /\ ret.arg[3] = 1
    /\ ret.raised = "SliceOverflow"

(* the direct call made with descriptor u in place of the one used *)
SameCallWith(u) ==
    IF ret.op = "read_expr"
    THEN read_expr(u, ExprWord, ret.arg[2], ret.arg[3])
    ELSE write_expr(u, ExprVar, ExprWord, ret.arg[2], ret.arg[3])

(* C20: for an Integer of either signedness and for an Enum, decode and    *)
(* encode name the whole word exactly when width = word_width and          *)
(* offset = 0, and otherwise the bit range [offset + width - 1, offset];   *)
(* a signed Integer, an unsigned Integer and an Enum of the same width get *)
(* the same expression for the same word width and offset.                 *)
SameBitPathForIntAndEnum ==
    (ExprCalled /\ ret.arg[1].kind \in {"int", "enum"} /\ ret.raised = "none") =>
        LET t    == ret.arg[1]
            W    == ret.arg[2]
            ind0 == ret.arg[3]
            l    == ret.out.lines[1]
        IN  /\ Len(ret.out.lines) = 1
            /\ l.w = ExprWord
            /\ l.src = "word" <=> (t.width = W /\ ind0 = 0)
            /\ l.src # "word" =>
                  /\ l.src = "range"
                  /\ l.hi = ind0 + t.width - 1
                  /\ l.lo = ind0
            /\ \A u \in { IntType(t.width, TRUE), IntType(t.width, FALSE),
                           EnumTypeOfWidth("Mode", t.width) } :
                  SameCallWith(u) = Return(ret.out.lines)

SameBitPathForIntAndEnum_Witness ==
    /\ ret.op = "write_expr"
    /\ ret.arg[1] = EnumTypeOfWidth("Mode", 16)
    /\ ret.arg[2] = 16
    /\ ret.arg[3] = 0
    /\ ret.out.lines[1].src = "word"

(***************************************************************************)
(* Layout of the include text (specification SpecInclude).                 *)
(***************************************************************************)
IncludeWritten == ret.op = "gen_include" /\ ret.raised = "none"

Pos(text, op) == { k \in 1..Len(text) : text[k].op = op }

PosW(text, op, w) == { k \in 1..Len(text) : text[k].op = op /\ text[k].w = w }

Before(A, B) == \A a \in A, b \in B : a < b

One(A) == Cardinality(A) = 1

(* auxiliary declarations, field declarations in declaration order, then   *)
(* per configured width, in configured order, the read routine followed by *)
(* the write routine; after them both dispatchers, then the equality       *)
(* operation, then the string conversion                                   *)
SectionsAroundDispatchers(text, fs, ws) ==
    LET disp == Pos(text, "disp_sig_read") \cup Pos(text, "disp_sig_write")
    IN  /\ Before(Pos(text, "preamble"), Pos(text, "decl"))
        /\ SelectSeq(text, LAMBDA l : l.op = "decl") = Decls(fs)
        /\ \A i \in 1..Len(ws) :
              /\ One(PosW(text, "sig_read", ws[i]))
              /\ One(PosW(text, "sig_write", ws[i]))
              /\ Before(Pos(text, "decl"), PosW(text, "sig_read", ws[i]))
              /\ Before(Pos(text, "preamble"), PosW(text, "sig_read", ws[i]))
              /\ Before(PosW(text, "sig_read", ws[i]), PosW(text, "sig_write", ws[i]))
              /\ \A j \in 1..Len(ws) :
                    i < j => Before(PosW(text, "sig_write", ws[i]),
                                    PosW(text, "sig_read", ws[j]))
        /\ Cardinality(Pos(text, "sig_read")) = Len(ws)
        /\ Cardinality(Pos(text, "sig_write")) = Len(ws)
        /\ One(Pos(text, "disp_sig_read"))
        /\ One(Pos(text, "disp_sig_write"))
        /\ Before(Pos(text, "decl"), disp)
        /\ Before(Pos(text, "preamble"), disp)
        /\ Before(Pos(text, "sig_write"), disp)
        /\ One(Pos(text, "equality"))
        /\ One(Pos(text, "to_string_open"))
        /\ Before(disp, Pos(text, "equality"))
        /\ Before(Pos(text, "equality"), Pos(text, "to_string_open"))

(* C15 as stated: the sections are in the order above, with the read       *)
(* dispatcher before the write dispatcher.                                 *)
SectionsInOrderReadDispatcherFirst ==
    IncludeWritten =>
        /\ SectionsAroundDispatchers(file, fields, ret.arg)
        /\ Before(Pos(file, "disp_sig_read"), Pos(file, "disp_sig_write"))

(* C15, amended: the sections are in the order above, with the write       *)
(* dispatcher before the read dispatcher.                                  *)
SectionsInOrderWriteDispatcherFirst ==
    IncludeWritten =>
        /\ SectionsAroundDispatchers(file, fields, ret.arg)
        /\ Before(Pos(file, "disp_sig_write"), Pos(file, "disp_sig_read"))

SectionsInOrderWriteDispatcherFirst_Witness ==
    /\ IncludeWritten
    /\ Len(ret.arg) = 2
    /\ Len(fields) >= 2
    /\ Pos(file, "preamble") # {}
    /\ Before(Pos(file, "disp_sig_write"), Pos(file, "disp_sig_read"))

(* C16 as stated: the declaration of every Enum type used by a field is    *)
(* in the text exactly once, above the declaration of each field of that   *)
(* type.                                                                   *)
AuxiliaryDeclaredOnce ==
    IncludeWritten =>
        \A i \in 1..Len(fields) :
            HasPreamble(fields[i]) =>
                LET aux == { k \in Pos(file, "preamble") :
                                 file[k].name = fields[i].name }
                IN  /\ One(aux)
                    /\ Before(aux, { k \in Pos(file, "decl") : file[k].fld = i })

(***************************************************************************)
(* Properties of the constructors (specification SpecTypes).               *)
(***************************************************************************)
EnumCalled == ret.op = "EnumType"

ValidEntries(es) == \A i \in 1..Len(es) : es[i].kind \in {"str", "tuple"}

(* the value the stated rule gives entry i: an explicit value is kept, a   *)
(* bare label gets 0 when first and one more than its predecessor          *)
(* otherwise                                                               *)
RECURSIVE RuleValue(_, _)
RuleValue(es, i) ==
    IF es[i].kind = "tuple" THEN es[i].value
    ELSE IF i = 1 THEN 0
    ELSE RuleValue(es, i - 1) + 1

(* the next auto value after the last entry *)
RuleNext(es) == IF es = << >> THEN 0 ELSE RuleValue(es, Len(es)) + 1

FollowsRule(es) ==
    /\ ret.raised = "none"
    /\ ret.out.entries = [i \in 1..Len(es) |-> RuleValue(es, i)]
    /\ ret.out.dtype.width = Max(1, CeilLog2(RuleNext(es)))
    /\ es = << StrEntry, StrEntry, StrEntry >> =>
          ret.out.dtype.width = 2
    /\ es = << StrEntry, TupleEntry(10), StrEntry >> =>
          /\ ret.out.entries[3] = 11
          /\ ret.out.dtype.width = 4

(* C17 as stated: for every list of valid entries, of any length, built    *)
(* without an explicit width, the construction succeeds with the values of *)
(* the one-pass rule and width = max(1, ceil(log2(next auto value)));      *)
(* [A, B, C] gives width 2 and [A, (B, 10), C] gives C = 11 and width 4.   *)
EnumValuesAndWidthRule ==
    (EnumCalled /\ ValidEntries(ret.arg[1]) /\ ret.arg[2] = << >>) =>
        FollowsRule(ret.arg[1])

(* what holds: the rule, for the lists that leave the counter positive *)
EnumRuleWhenCounterPositive ==
    (EnumCalled /\ ValidEntries(ret.arg[1]) /\ ret.arg[2] = << >>
                /\ RuleNext(ret.arg[1]) >= 1) =>
        FollowsRule(ret.arg[1])

(* C18 as stated: the width computed for an EnumType built without an      *)
(* explicit width fits every value assigned to its entries:                *)
(* value < 2^width.                                                        *)
EnumWidthFitsMaxValue ==
    (EnumCalled /\ ret.raised = "none" /\ ret.arg[2] = << >>) =>
        \A i \in 1..Len(ret.out.entries) :
            ret.out.entries[i] < 2 ^ ret.out.dtype.width

(* C19 as stated: every descriptor a constructor yields has width > 0; an  *)
(* IntType of width <= 0 and an EnumType with an entry that is neither a   *)
(* label nor a pair are refused.                                           *)
ConstructedWidthIsPositive ==
    /\ (ret.op \in {"IntType", "FloatType", "EnumType"} /\ ret.raised = "none") =>
          ret.out.dtype.width > 0
    /\ (ret.op = "IntType" /\ ret.arg[1] <= 0) => ret.raised # "none"
    /\ (EnumCalled /\ ~ValidEntries(ret.arg[1])) => ret.raised # "none"

(* what holds: IntType, FloatType, and EnumType without an explicit width *)
ComputedWidthIsPositive ==
    /\ (ret.op \in {"IntType", "FloatType"} /\ ret.raised = "none") =>
          ret.out.dtype.width > 0
    /\ (EnumCalled /\ ret.raised = "none" /\ ret.arg[2] = << >>) =>
          ret.out.dtype.width > 0
    /\ (ret.op = "IntType" /\ ret.arg[1] <= 0) => ret.raised # "none"
    /\ (EnumCalled /\ ~ValidEntries(ret.arg[1])) => ret.raised # "none"

(***************************************************************************)
(* The Float variant (specification SpecExpr).                             *)
(***************************************************************************)
FloatCalled == ExprCalled /\ ret.arg[1] = FloatType /\ ret.raised = "none"

(* the line of the returned text that names the word *)
FloatWordLine ==
    IF ret.op = "read_expr" THEN ret.out.lines[2] ELSE ret.out.lines[3]

(* the union is declared and the value passes through it: conv.u is        *)
(* loaded from the word and conv.f is the value read, or conv.f is set     *)
(* from the field and conv.u is stored into the word                       *)
Reinterprets ==
    /\ Len(ret.out.lines) = 3
    /\ ret.out.lines[1].op = "union_decl"
    /\ IF ret.op = "read_expr"
       THEN /\ ret.out.lines[2].op = "conv_u_assign"
            /\ ret.out.lines[3].op = "conv_f"
       ELSE /\ ret.out.lines[2].op = "conv_f_assign"
            /\ ret.out.lines[2].fld = ExprVar
            /\ ret.out.lines[3].op = "store_conv_u"
    /\ FloatWordLine.w = ExprWord

SlicedAt(l, ind0) ==
    l.src = "range" /\ l.hi = ind0 + FloatWidth - 1 /\ l.lo = ind0

(* C21 as stated: for every word width >= 32 and every offset that fits,   *)
(* word_width = 32 with offset 0 included, the Float read expression and   *)
(* the Float write statement both address the bit range                    *)
(* [offset + 31, offset] and reinterpret it through the union.             *)
FloatAlwaysSliced ==
    FloatCalled => (Reinterprets /\ SlicedAt(FloatWordLine, ret.arg[3]))

(* C21, amended: the write statement always addresses the bit range        *)
(* [offset + 31, offset]; the read expression does too, except for         *)
(* word_width = 32 with offset 0, where it names the whole word; the       *)
(* reinterpretation through the union is applied in every case.            *)
FloatSlicedExceptWholeWordRead ==
    FloatCalled =>
        /\ Reinterprets
        /\ IF ret.op = "read_expr" /\ ret.arg[2] = FloatWidth /\ ret.arg[3] = 0
           THEN FloatWordLine.src = "word"
           ELSE SlicedAt(FloatWordLine, ret.arg[3])

FloatSlicedExceptWholeWordRead_Witness ==
    /\ FloatCalled
    /\ ret.op = "read_expr"
    /\ ret.arg[2] = 32
    /\ ret.arg[3] = 0
    /\ FloatWordLine.src = "word"

(***************************************************************************)
(* Order and agreement of the packing loops (specification Spec).          *)
(***************************************************************************)
LexBefore(a, b) == a.word < b.word \/ (a.word = b.word /\ a.off < b.off)

(* the fields named by the lines of a routine, in text order *)
FieldsInTextOrder(lines) ==
    LET fl == SelectSeq(lines, LAMBDA l : l.fld # 0)
    IN  [k \in 1..Len(fl) |-> fl[k].fld]

(* C22: for every field list with widths <= W, a field declared earlier is *)
(* placed at a lexicographically smaller (word, offset), the words used    *)
(* are 0, 1, ... with none left out, and the routine handles the fields in *)
(* declaration order, whatever a different order would save.               *)
WireOrderIsDeclarationOrder ==
    \A W \in BusWidths :
        Placed(W) =>
            LET pl == ret.out.place
            IN  /\ ret.raised = "none"
                /\ Len(pl) = Len(fields)
                /\ \A i, j \in 1..Len(pl) : i < j => LexBefore(pl[i], pl[j])
                /\ PlacementWords(pl) = 0..(ret.out.words - 1)
                /\ FieldsInTextOrder(ret.out.lines) = [k \in 1..Len(fields) |-> k]

(* 16, 20, 16 bits at W = 32 take three words where 16, 16, 20 takes two *)
WireOrderIsDeclarationOrder_Witness ==
    /\ Placed(32)
    /\ Len(fields) = 3
    /\ fields[1].width = 16 /\ fields[2].width = 20 /\ fields[3].width = 16
    /\ ret.out.words = 3
    /\ total_words(<< fields[1], fields[3], fields[2] >>, 32) = 2

(* C23: for every field list with widths <= W, gen_stream_read and the     *)
(* second pass of gen_stream_write call read_expr / write_expr with the    *)
(* same (word, offset) for each field, and total_words of the first pass   *)
(* is the number of words the second pass opens and the number it emits.   *)
PackingLoopsAgree ==
    \A W \in BusWidths :
        Placed(W) =>
            LET r == gen_stream_read(fields, W)
                w == gen_stream_write(fields, W)
            IN  /\ ret.raised = "none"
                /\ ret.op = "gen_stream_read" =>
                      /\ ret.out.place = w.place
                      /\ ret.out.words = w.total_words
                /\ ret.op = "gen_stream_write" =>
                      /\ ret.out.place = r.place
                      /\ ret.out.total_words = ret.out.words
                      /\ ret.out.total_words = CountOp(ret.out.lines, "decl_word")
                      /\ ret.out.total_words = CountOp(ret.out.lines, "emit")

PackingLoopsAgree_Witness ==
    /\ Placed(32)
    /\ ret.op = "gen_stream_write"
    /\ Len(fields) = 3
    /\ ret.out.total_words = 2
    /\ ret.out.place = gen_stream_read(fields, 32).place
    /\ ret.out.place[2].off > 0

(***************************************************************************)
(* vcd.py: the signals of a VCD trace, their sampling on the clock edges   *)
(* and the extraction of AXI4-Stream bursts.  Times are the scaled times   *)
(* of SigInfo.times; a sampled signal is given by the times and            *)
(* numeric_values of its events, a clock by the times and values ("0",     *)
(* "1") of its events: these are the attributes the functions read.        *)
(***************************************************************************)
MaxTime == 5
MaxEvents == 3
MaxClocks == 2
MaxCycles == 4

Times == 0..MaxTime
SigValues == {0, 1}

SigInfo(times, numeric_values) ==
    [times |-> times, numeric_values |-> numeric_values]

ClockInfo(times, values) == [times |-> times, values |-> values]

(* extract_clock_times: the times of the events whose value is '1' *)
RECURSIVE extract_clock_times_from(_, _)
extract_clock_times_from(sig_info, k) ==
    IF k > Len(sig_info.times) THEN << >>
    ELSE (IF sig_info.values[k] = "1" THEN << sig_info.times[k] >> ELSE << >>)
         \o extract_clock_times_from(sig_info, k + 1)

extract_clock_times(sig_info) == extract_clock_times_from(sig_info, 1)

(* the while loop of resample_signal: j counts the events consumed, so    *)
(* that sig_times[j] of the code is sig.times[j + 1] here                  *)
RECURSIVE ResampleAdvance(_, _, _, _)
ResampleAdvance(sig, j, current_val, t_clk) ==
    IF j < Len(sig.times) /\ sig.times[j + 1] <= t_clk
    THEN ResampleAdvance(sig, j + 1, sig.numeric_values[j + 1], t_clk)
    ELSE [j |-> j, current_val |-> current_val]

(* the for loop of resample_signal over the clock times, from the i-th *)
RECURSIVE ResampleLoop(_, _, _, _, _, _)
ResampleLoop(sig, clk_times, i, j, current_val, sampled) ==
    IF i > Len(clk_times) THEN sampled
    ELSE CHOOSE r \in
            { ResampleLoop(sig, clk_times, i + 1, st.j, st.current_val,
                           Append(sampled, st.current_val)) :
              st \in { ResampleAdvance(sig, j, current_val, clk_times[i]) } } :
            TRUE

(* resample_signal: current_val starts as sig_values[0], which raises     *)
(* IndexError on a signal without events                                   *)
resample_signal(sig, clk_times) ==
    IF Len(sig.numeric_values) = 0
    THEN [raised |-> "IndexError", sampled |-> << >>]
    ELSE [raised |-> "none",
          sampled |-> ResampleLoop(sig, clk_times, 1, 0,
                                   sig.numeric_values[1], << >>)]

(* the truth value of a sampled number in an if *)
Truthy(v) == v # 0

(* current_burst = None *)
NoBurst == [data |-> << >>, start_idx |-> -1, beat_type |-> << >>,
            tstart |-> -1]

NewBurst(i, tstart) ==
    [data |-> << >>, start_idx |-> i, beat_type |-> << >>, tstart |-> tstart]

(* the beat type appended on a cycle without handshake inside a burst *)
WaitBeat_ReadyFirst(tvalid, tready) ==
    IF ~Truthy(tready) THEN << 2 >>
    ELSE IF ~Truthy(tvalid) THEN << 1 >>
    ELSE << >>

WaitBeat(tvalid, tready) ==
    IF ~Truthy(tvalid) THEN << 1 >>
    ELSE IF ~Truthy(tready) THEN << 2 >>
    ELSE << >>

(* the body of the for loop of extract_axis_bursts on cycle i (from 0) *)
AxisStep(st, i, s, clk_times) ==
    IF Truthy(s.tvalid[i + 1]) /\ Truthy(s.tready[i + 1])
    THEN LET opened == IF st.current_burst = NoBurst
                       THEN NewBurst(i, clk_times[i + 1])
                       ELSE st.current_burst
             beat == [opened EXCEPT !.data = Append(@, s.tdata[i + 1]),
                                    !.beat_type = Append(@, 0)]
         IN  IF Truthy(s.tlast[i + 1])
             THEN [bursts |-> Append(st.bursts, beat),
                   current_burst |-> NoBurst]
             ELSE [bursts |-> st.bursts, current_burst |-> beat]
    ELSE IF st.current_burst # NoBurst
         THEN [st EXCEPT !.current_burst.beat_type =
                             @ \o WaitBeat(s.tvalid[i + 1], s.tready[i + 1])]
         ELSE st

RECURSIVE AxisLoop(_, _, _, _)
AxisLoop(st, i, s, clk_times) ==
    IF i >= Len(s.tdata) THEN st
    ELSE CHOOSE r \in { AxisLoop(n, i + 1, s, clk_times) :
                        n \in { AxisStep(st, i, s, clk_times) } } : TRUE

(* np.diff and np.median of the clock times; NaN for fewer than two edges *)
NaN == -1

Diff(s) == [k \in 1..(Len(s) - 1) |-> s[k + 1] - s[k]]

KthSmallest(d, k) ==
    CHOOSE x \in { d[i] : i \in 1..Len(d) } :
        /\ Cardinality({ i \in 1..Len(d) : d[i] < x }) < k
        /\ Cardinality({ i \in 1..Len(d) : d[i] <= x }) >= k

Median(d) ==
    IF Len(d) = 0 THEN NaN
    ELSE IF Len(d) % 2 = 1 THEN KthSmallest(d, (Len(d) + 1) \div 2)
    ELSE (KthSmallest(d, Len(d) \div 2)
          + KthSmallest(d, Len(d) \div 2 + 1)) \div 2

(* extract_axis_bursts on the signals sig_info: the clock edges, the four *)
(* sampled signals, the scan and the clock period                          *)
extract_axis_bursts(sig_info, clk_name, axis_sigs) ==
    LET clk_times == extract_clock_times(sig_info[clk_name])
        tdata == resample_signal(sig_info[axis_sigs.tdata], clk_times)
        tvalid == resample_signal(sig_info[axis_sigs.tvalid], clk_times)
        tready == resample_signal(sig_info[axis_sigs.tready], clk_times)
        tlast == resample_signal(sig_info[axis_sigs.tlast], clk_times)
        s == [tdata |-> tdata.sampled, tvalid |-> tvalid.sampled,
              tready |-> tready.sampled, tlast |-> tlast.sampled]
    IN  IF \E r \in {tdata, tvalid, tready, tlast} : r.raised # "none"
        THEN [raised |-> "IndexError", bursts |-> << >>, clk_period |-> 0]
        ELSE [raised |-> "none",
              bursts |-> AxisLoop([bursts |-> << >>,
                                   current_burst |-> NoBurst],
                                  0, s, clk_times).bursts,
              clk_period |-> Median(Diff(clk_times))]

(***************************************************************************)
(* The trace-level specification: a viewer holds the signals of a trace,   *)
(* and resample_signal or extract_axis_bursts is called on them.           *)
(***************************************************************************)
Increasing(s) == \A i, k \in 1..Len(s) : i < k => s[i] < s[k]

TimeLists(n) ==
    { s \in UNION { [1..m -> Times] : m \in 0..n } : Increasing(s) }

Signals ==
    UNION { { SigInfo(ts, vs) : vs \in [1..Len(ts) -> SigValues] } :
            ts \in TimeLists(MaxEvents) }

ResampleInputs == Signals \X TimeLists(MaxClocks)

(* an AXI4-Stream trace of n cycles: the clock rises at time 2c in cycle  *)
(* c = 1..n and falls at 2c + 1; every signal dumps 0 at time 0 and its   *)
(* value for cycle c at time 2c - 1; the data of cycle c is BeatData(c)    *)
Cycles == [tvalid : SigValues, tready : SigValues, tlast : SigValues]

CycleLists == UNION { [1..n -> Cycles] : n \in 0..MaxCycles }

BeatData(c) == 16 + c

AxisClock(n) ==
    ClockInfo([k \in 1..(2 * n + 1) |-> IF k = 1 THEN 0 ELSE k],
              [k \in 1..(2 * n + 1) |-> IF k % 2 = 0 THEN "1" ELSE "0"])

AxisSignal(values) ==
    SigInfo([k \in 1..(Len(values) + 1) |-> IF k = 1 THEN 0 ELSE 2 * k - 3],
            << 0 >> \o values)

AxisTrace(cs) ==
    [clk |-> AxisClock(Len(cs)),
     tdata |-> AxisSignal([c \in 1..Len(cs) |-> BeatData(c)]),
     tvalid |-> AxisSignal([c \in 1..Len(cs) |-> cs[c].tvalid]),
     tready |-> AxisSignal([c \in 1..Len(cs) |-> cs[c].tready]),
     tlast |-> AxisSignal([c \in 1..Len(cs) |-> cs[c].tlast])]

AxisSigs == [tdata |-> "tdata", tvalid |-> "tvalid", tready |-> "tready",
             tlast |-> "tlast"]

VcdInit ==
    /\ fields = << >>
    /\ stream_bus_widths = << >>
    /\ file = NoFile
    /\ ret \in { Result("SigInfo", a, "none", NoneOut) : a \in ResampleInputs }
             \cup { Result("VcdViewer", << AxisTrace(cs), cs >>, "none",
                           NoneOut) : cs \in CycleLists }
    /\ RunIdle

call_resample_signal ==
    /\ ret.op = "SigInfo"
    /\ \E r \in { resample_signal(ret.arg[1], ret.arg[2]) } :
        ret' = Result("resample_signal", ret.arg, r.raised,
                      [NoneOut EXCEPT !.sampled = r.sampled])
    /\ UNCHANGED << fields, stream_bus_widths, file >>
    /\ UNCHANGED rvars

call_extract_axis_bursts ==
    /\ ret.op = "VcdViewer"
    /\ \E r \in { extract_axis_bursts(ret.arg[1], "clk", AxisSigs) } :
        ret' = Result("extract_axis_bursts", ret.arg, r.raised,
                      [NoneOut EXCEPT !.bursts = r.bursts,
                                      !.clk_period = r.clk_period])
    /\ UNCHANGED << fields, stream_bus_widths, file >>
    /\ UNCHANGED rvars

VcdNext ==
    \/ call_resample_signal
    \/ call_extract_axis_bursts

SpecVcd == VcdInit /\ [][VcdNext]_vars

(***************************************************************************)
(* Claims about the trace functions.                                       *)
(***************************************************************************)
BurstsExtracted == ret.op = "extract_axis_bursts" /\ ret.raised = "none"

Handshake(cy) == cy.tvalid = 1 /\ cy.tready = 1

(* the cycles (from 1) that close a burst: handshakes with tlast high *)
ClosingCycles(cs) ==
    { c \in 1..Len(cs) : Handshake(cs[c]) /\ cs[c].tlast = 1 }

KthClosing(cs, k) ==
    IF k = 0 THEN 0
    ELSE CHOOSE c \in ClosingCycles(cs) :
            Cardinality({ d \in ClosingCycles(cs) : d <= c }) = k

(* the first handshake after the previous closing cycle *)
OpeningCycle(cs, k) ==
    CHOOSE c \in 1..Len(cs) :
        /\ c > KthClosing(cs, k - 1)
        /\ Handshake(cs[c])
        /\ \A d \in (KthClosing(cs, k - 1) + 1)..(c - 1) : ~Handshake(cs[d])

CycleType(cy) ==
    IF Handshake(cy) THEN 0 ELSE IF cy.tvalid = 0 THEN 1 ELSE 2

ZeroBeats(b) == { k \in 1..Len(b.beat_type) : b.beat_type[k] = 0 }

(* C24: the bursts returned by extract_axis_bursts are those of the        *)
(* two-state scan: one burst per handshake cycle with tlast high, in time  *)
(* order; the k-th opens at the first handshake cycle after the previous   *)
(* closing cycle and closes at the k-th closing cycle; its data is the     *)
(* tdata of the handshake cycles in between, in order; its beat_type has   *)
(* one entry per cycle from start_idx to the closing cycle (0 transfer, 1  *)
(* when tvalid is low, 2 when only tready is low), starts and ends with 0  *)
(* and has as many 0 entries as data; bursts do not overlap, and a burst   *)
(* still open at the end of the trace is not returned.                     *)
BurstsFollowTwoStateScan ==
    BurstsExtracted =>
        LET cs == ret.arg[2]
            bursts == ret.out.bursts
        IN  /\ Len(bursts) = Cardinality(ClosingCycles(cs))
            /\ \A k \in 1..Len(bursts) :
                LET b == bursts[k]
                    open == OpeningCycle(cs, k)
                    close == KthClosing(cs, k)
                    hs == { c \in open..close : Handshake(cs[c]) }
                IN  /\ b.start_idx = open - 1
                    /\ b.tstart = 2 * open
                    /\ Len(b.data) = Cardinality(hs)
                    /\ \A c \in hs :
                         b.data[Cardinality({ d \in hs : d <= c })]
                             = BeatData(c)
                    /\ b.beat_type =
                         [n \in 1..(close - open + 1) |->
                             CycleType(cs[open + n - 1])]
                    /\ b.beat_type[1] = 0
                    /\ b.beat_type[Len(b.beat_type)] = 0
                    /\ Cardinality(ZeroBeats(b)) = Len(b.data)
            /\ \A k \in 1..(Len(bursts) - 1) :
                bursts[k].start_idx + Len(bursts[k].beat_type)
                    <= bursts[k + 1].start_idx

(* a transfer, a cycle with tvalid and tready both low, the closing        *)
(* transfer, then a transfer that opens a burst the trace never closes     *)
BurstsFollowTwoStateScan_Witness ==
    /\ BurstsExtracted
    /\ Len(ret.arg[2]) = 4
    /\ ret.arg[2][2].tvalid = 0 /\ ret.arg[2][2].tready = 0
    /\ Handshake(ret.arg[2][4]) /\ ret.arg[2][4].tlast = 0
    /\ Len(ret.out.bursts) = 1
    /\ ret.out.bursts[1].beat_type = << 0, 1, 0 >>
    /\ ret.out.bursts[1].data = << BeatData(1), BeatData(3) >>

Resampled == ret.op = "resample_signal" /\ ret.raised = "none"

Dist(a, b) == IF a < b THEN b - a ELSE a - b

(* the events of sig that no other event is nearer to time t than *)
NearestEvents(sig, t) ==
    { k \in 1..Len(sig.times) :
        \A m \in 1..Len(sig.times) :
            Dist(sig.times[k], t) <= Dist(sig.times[m], t) }

(* the events of sig at or before time t *)
EventsUpTo(sig, t) == { k \in 1..Len(sig.times) : sig.times[k] <= t }

(* C25: the value resample_signal returns for clock time t is the value    *)
(* of the signal event whose time is nearest to t (of one of them when two *)
(* events are equally near).                                               *)
ResampleIsNearestNeighbour ==
    Resampled =>
        LET sig == ret.arg[1]
            clk_times == ret.arg[2]
        IN  /\ Len(ret.out.sampled) = Len(clk_times)
            /\ \A i \in 1..Len(clk_times) :
                \E k \in NearestEvents(sig, clk_times[i]) :
                    ret.out.sampled[i] = sig.numeric_values[k]

(* what the loop computes instead: the value of the last event at or       *)
(* before t, and the value of the first event when t is before all events  *)
ResampleHoldsLastEvent ==
    Resampled =>
        LET sig == ret.arg[1]
            clk_times == ret.arg[2]
        IN  /\ Len(ret.out.sampled) = Len(clk_times)
            /\ \A i \in 1..Len(clk_times) :
                ret.out.sampled[i] =
                    sig.numeric_values[
                        IF EventsUpTo(sig, clk_times[i]) = {} THEN 1
                        ELSE Cardinality(EventsUpTo(sig, clk_times[i]))]

(* a signal without events has no first value to start from *)
ResampleNeedsAnEvent ==
    ret.op = "resample_signal" =>
        (ret.raised = "IndexError" <=> Len(ret.arg[1].times) = 0)

====
